---------------------------- MODULE Spec2Model ----------------------------
(***************************************************************************)
(* Model of the ranked-ballot tabulator of vote-condorcet                  *)
(* (src/voting/utils.py).                                                  *)
(*                                                                         *)
(* Spec        one call of calculate_condorcet_winner, cut at the places   *)
(*             where the function hands its locals to the next helper:     *)
(*             normalisation (lines 46-82), pairwise counting and the      *)
(*             Condorcet test (87-103), the tiebreaker dispatch (108-114). *)
(* SpecMatrix  find_condorcet_winner and schulze_method called directly    *)
(*             on an arbitrary pairwise dictionary and candidate set.      *)
(* SpecStats   get_ranking_statistics called on the stored ballots.        *)
(* SpecRanking validate_ranking called on a ranking built from a form.     *)
(* SpecFullRankings, SpecPartialRankings                                   *)
(*             calculate_condorcet_winner on as many ballots as there are  *)
(*             candidates: full rankings, and partial rankings filtered by *)
(*             the poll's candidates.                                      *)
(* SpecPoll    the requests of src/voting/views.py on one poll:            *)
(*             vote_poll (authentication and vote submission, cut where    *)
(*             the handler reads and where it writes the database), the    *)
(*             creator's actions and the three results endpoints.          *)
(*                                                                         *)
(* Candidate identifiers are the strings str(candidate.id) that            *)
(* views.vote_poll stores (views.py:353-370): non-empty, hence truthy, and *)
(* a stored ranking never repeats an identifier (validate_ranking).        *)
(* A Python set has no defined iteration order: every loop over a set and  *)
(* every list(set) is modelled as an arbitrary permutation of the set.     *)
(* random.choice is an arbitrary member of its argument.                   *)
(***************************************************************************)
EXTENDS Integers, Sequences, FiniteSets, TLC

VARIABLES
    arg_votes,            \* the votes_list argument as passed by the caller
    tiebreaker_method,    \* the tiebreaker_method argument
    expected_given,       \* FALSE: expected_candidates is None
    expected_candidates,  \* the expected_candidates argument ({} when None)
    pc,                   \* position inside the call
    votes_list,           \* the local votes_list (rebound at line 57)
    all_candidates,       \* the local all_candidates
    pairwise_results,     \* the dictionary of calculate_pairwise_results
    strength,             \* schulze_method's d after the relaxation loop
    winner,               \* returned winner_id ("None" while there is none)
    method_used,          \* returned method_used
    error,                \* message of the ValueError raised ("none" if none)
    stats,                \* the dictionary get_ranking_statistics returns
    ranking,              \* the ranking argument of validate_ranking
    is_valid,             \* the value validate_ranking returns
    poll,                 \* the Poll row: is_active, results_released, ...
    token_used,           \* the PollToken rows with is_used = True
    token_lock,           \* per PollToken row, the request holding its row lock
    sessions,             \* per browser session: request position, auth token
    vote_records,         \* the Vote rows of the poll, oldest first
    response              \* what the last results request was answered with

vars == <<arg_votes, tiebreaker_method, expected_given, expected_candidates,
          pc, votes_list, all_candidates, pairwise_results, strength,
          winner, method_used, error, stats, ranking, is_valid,
          poll, token_used, token_lock, sessions, vote_records, response>>

-----------------------------------------------------------------------------
(* Bounds of the model *)

\* the candidate identifiers that occur
Candidates == {"A", "B", "C"}

\* most ballots in one call
MaxVotes == 2

\* largest count in a pairwise dictionary handed to SpecMatrix
MaxCount == 2

\* tiebreaker_method values: the three named ones and one that is none of them
TiebreakerMethods == {"schulze", "borda", "random", "other"}

\* expected_candidates values tried when the argument is a set
ExpectedSets == SUBSET Candidates

-----------------------------------------------------------------------------
(* Python values *)

None == "None"

EmptyDict == [k \in {} |-> 0]

Range(s) == {s[i] : i \in 1..Len(s)}

Max(a, b) == IF a >= b THEN a ELSE b

Min(a, b) == IF a <= b THEN a ELSE b

\* every order in which a set may be iterated
Perms(S) ==
    {s \in [1..Cardinality(S) -> S] : \A i, j \in 1..Cardinality(S) : s[i] = s[j] => i = j}

\* rankings without repetition over Candidates, of every length (a stored
\* ranking is a permutation of the poll's candidates at the time of the vote)
Ballots == UNION {Perms(S) : S \in SUBSET Candidates}

VoteLists == UNION {[1..n -> Ballots] : n \in 0..MaxVotes}

\* dict.get(key, 0)
Get(pw, a, b) == IF <<a, b>> \in DOMAIN pw THEN pw[<<a, b>>] ELSE 0

\* defaultdict(int)[key] += n
Add(dict, key, n) ==
    IF key \in DOMAIN dict THEN [dict EXCEPT ![key] = @ + n]
    ELSE [k \in DOMAIN dict \cup {key} |-> IF k = key THEN n ELSE dict[k]]

-----------------------------------------------------------------------------
(* calculate_pairwise_results, utils.py:117-145 *)

\* lines 140-143 with vote[i+1:i+2] for vote[i+1:]: only the next candidate
\* on the ballot is counted
RECURSIVE CountVoteAdjacent(_, _, _, _)
CountVoteAdjacent(pw, vote, i, j) ==
    IF i >= Len(vote) THEN pw
    ELSE CountVoteAdjacent(Add(pw, <<vote[i], vote[i + 1]>>, 1), vote, i + 1, i + 2)

\* lines 140-143 with `for candidate_b in vote` skipping position i only:
\* the candidates ranked above candidate_a are counted as well
RECURSIVE CountVoteAllPairs(_, _, _, _)
CountVoteAllPairs(pw, vote, i, j) ==
    IF i > Len(vote) THEN pw
    ELSE IF j > Len(vote) THEN CountVoteAllPairs(pw, vote, i + 1, 1)
    ELSE IF j = i THEN CountVoteAllPairs(pw, vote, i, j + 1)
    ELSE CountVoteAllPairs(Add(pw, <<vote[i], vote[j]>>, 1), vote, i, j + 1)

\* lines 140-143: for i, candidate_a in enumerate(vote):
\*                    for candidate_b in vote[i+1:]: pairwise[(a, b)] += 1
RECURSIVE CountVote(_, _, _, _)
CountVote(pw, vote, i, j) ==
    IF i > Len(vote) THEN pw
    ELSE IF j > Len(vote) THEN CountVote(pw, vote, i + 1, i + 2)
    ELSE CountVote(Add(pw, <<vote[i], vote[j]>>, 1), vote, i, j + 1)

\* line 138: for vote in votes_list
RECURSIVE CountVotes(_, _)
CountVotes(pw, votes) ==
    IF votes = <<>> THEN pw
    ELSE CountVotes(CountVote(pw, Head(votes), 1, 2), Tail(votes))

\* the candidates argument is not read by the function
calculate_pairwise_results(votes, cands) == CountVotes(EmptyDict, votes)

-----------------------------------------------------------------------------
(* find_condorcet_winner, utils.py:148-185 *)

\* line 178 written `votes_for < votes_against`: a tie does not stop the candidate
SurvivesTie(pw, candidate, opponent) ==
    ~(Get(pw, candidate, opponent) < Get(pw, opponent, candidate))

\* lines 174-180: the opponent does not stop the candidate
Survives(pw, candidate, opponent) ==
    ~(Get(pw, candidate, opponent) <= Get(pw, opponent, candidate))

\* lines 166-180 with is_winner set by the last opponent compared instead of
\* cleared by any: one opponent beaten is enough
IsWinnerSome(pw, candidate, cands) ==
    \E opponent \in cands : candidate # opponent /\ Survives(pw, candidate, opponent)

\* lines 166-180: is_winner after the loop over the opponents
IsWinner(pw, candidate, cands) ==
    \A opponent \in cands : candidate = opponent \/ Survives(pw, candidate, opponent)

\* the loop of lines 165-185 with `return None` inside the loop body: only the
\* first candidate iterated is examined
FirstWinnerOnlyFirst(pw, order, n) ==
    IF n > Len(order) THEN None
    ELSE IF IsWinner(pw, order[n], Range(order)) THEN order[n]
    ELSE None

\* lines 165-185, candidates iterated in the order `order`
RECURSIVE FirstWinner(_, _, _)
FirstWinner(pw, order, n) ==
    IF n > Len(order) THEN None
    ELSE IF IsWinner(pw, order[n], Range(order)) THEN order[n]
    ELSE FirstWinner(pw, order, n + 1)

find_condorcet_winner(pw, order) == FirstWinner(pw, order, 1)

-----------------------------------------------------------------------------
(* schulze_method, utils.py:188-262 *)

\* lines 219-225 with the margin count(i,j) - count(j,i) as the direct strength
InitStrengthMargin(pw, cl) ==
    [p \in Range(cl) \X Range(cl) |->
        IF p[1] # p[2] THEN Get(pw, p[1], p[2]) - Get(pw, p[2], p[1]) ELSE 0]

\* lines 219-225
InitStrength(pw, cl) ==
    [p \in Range(cl) \X Range(cl) |->
        IF p[1] # p[2] THEN Get(pw, p[1], p[2]) ELSE 0]

\* lines 231-235 with the two links of the path through k added up
RelaxOneSum(d, k, i, j) ==
    IF i # j
    THEN [d EXCEPT ![<<i, j>>] = Max(d[<<i, j>>], d[<<i, k>>] + d[<<k, j>>])]
    ELSE d

\* lines 231-235, one pass of the innermost body
RelaxOne(d, k, i, j) ==
    IF i # j
    THEN [d EXCEPT ![<<i, j>>] = Max(d[<<i, j>>], Min(d[<<i, k>>], d[<<k, j>>]))]
    ELSE d

\* lines 228-235 with k running over candidates_list[1:] only
RECURSIVE RelaxSkipFirst(_, _, _, _, _)
RelaxSkipFirst(d, cl, a, b, c) ==
    IF a > Len(cl) THEN d
    ELSE IF a = 1 THEN RelaxSkipFirst(d, cl, 2, 1, 1)
    ELSE IF b > Len(cl) THEN RelaxSkipFirst(d, cl, a + 1, 1, 1)
    ELSE IF c > Len(cl) THEN RelaxSkipFirst(d, cl, a, b + 1, 1)
    ELSE RelaxSkipFirst(RelaxOne(d, cl[a], cl[b], cl[c]), cl, a, b, c + 1)

\* lines 228-235: for k / for i / for j over candidates_list, in place
RECURSIVE Relax(_, _, _, _, _)
Relax(d, cl, a, b, c) ==
    IF a > Len(cl) THEN d
    ELSE IF b > Len(cl) THEN Relax(d, cl, a + 1, 1, 1)
    ELSE IF c > Len(cl) THEN Relax(d, cl, a, b + 1, 1)
    ELSE Relax(RelaxOne(d, cl[a], cl[b], cl[c]), cl, a, b, c + 1)

SchulzeStrength(pw, cl) == Relax(InitStrength(pw, cl), cl, 1, 1, 1)

\* lines 242-248 with `>=` for `>`: an equally strong path back excludes i
SchulzeIsWinnerNoTies(d, i, cl) ==
    \A j \in Range(cl) : i = j \/ ~(d[<<j, i>>] >= d[<<i, j>>])

\* lines 242-248: no other candidate has a stronger path to i
SchulzeIsWinner(d, i, cl) ==
    \A j \in Range(cl) : i = j \/ ~(d[<<j, i>>] > d[<<i, j>>])

\* lines 240-250: schulze_winners, in candidates_list order
SchulzeWinners(d, cl) == SelectSeq(cl, LAMBDA i : SchulzeIsWinner(d, i, cl))

\* lines 252-262: the values the call may return (random.choice picks any
\* member of its list; on an empty list it raises IndexError and nothing is
\* returned)
SchulzeReturn(d, cl) ==
    LET w == SchulzeWinners(d, cl) IN
    IF w # <<>> THEN Range(w) ELSE Range(cl)

schulze_method(pw, cl) == SchulzeReturn(SchulzeStrength(pw, cl), cl)

-----------------------------------------------------------------------------
(* borda_count_tiebreaker, utils.py:265-289 *)

\* scores is a dict: (candidate, score) entries in insertion order
IndexOf(scores, c) ==
    IF \E i \in 1..Len(scores) : scores[i][1] = c
    THEN CHOOSE i \in 1..Len(scores) : scores[i][1] = c
    ELSE 0

\* line 287 written `scores[candidate] = points`: the last ballot's points stay
AddScoreAssign(scores, c, points) ==
    IF IndexOf(scores, c) = 0 THEN Append(scores, <<c, points>>)
    ELSE [scores EXCEPT ![IndexOf(scores, c)] = <<c, points>>]

\* line 287: scores[candidate] += points
AddScore(scores, c, points) ==
    IF IndexOf(scores, c) = 0 THEN Append(scores, <<c, points>>)
    ELSE [scores EXCEPT ![IndexOf(scores, c)] = <<c, @[2] + points>>]

\* line 286 with the position counted from 1
PointsOneBased(n, position) == n - (position + 1)

\* line 286: points = n_candidates - position (position is 0-indexed)
Points(n, position) == n - position

\* lines 285-287, p is the 1-indexed position
RECURSIVE ScoreVote(_, _, _, _)
ScoreVote(scores, vote, n, p) ==
    IF p > Len(vote) THEN scores
    ELSE ScoreVote(AddScore(scores, vote[p], Points(n, p - 1)), vote, n, p + 1)

\* line 284
RECURSIVE ScoreVotes(_, _, _)
ScoreVotes(scores, votes, n) ==
    IF votes = <<>> THEN scores
    ELSE ScoreVotes(ScoreVote(scores, Head(votes), n, 1), Tail(votes), n)

\* lines 281-287
BordaScores(votes) ==
    ScoreVotes(<<>>, votes, IF votes # <<>> THEN Len(votes[1]) ELSE 0)

\* line 289 keeping the last of the largest items
RECURSIVE MaxItemLast(_, _, _)
MaxItemLast(scores, best, i) ==
    IF i > Len(scores) THEN best
    ELSE MaxItemLast(scores, IF scores[i][2] >= scores[best][2] THEN i ELSE best, i + 1)

\* line 289: max() keeps the first of the largest items
RECURSIVE MaxItem(_, _, _)
MaxItem(scores, best, i) ==
    IF i > Len(scores) THEN best
    ELSE MaxItem(scores, IF scores[i][2] > scores[best][2] THEN i ELSE best, i + 1)

\* max() of an empty sequence raises ValueError
borda_count_tiebreaker(votes) ==
    LET scores == BordaScores(votes) IN
    IF scores = <<>> THEN "ValueError" ELSE scores[MaxItem(scores, 1, 2)][1]

-----------------------------------------------------------------------------
(* random_tiebreaker, utils.py:354-364: the values the call may return *)

random_tiebreaker(cands) == cands

-----------------------------------------------------------------------------
(* calculate_condorcet_winner, utils.py:32-114 *)

\* the messages of the ValueErrors raised at lines 47, 60, 68, 76 and 82
ErrEmptyVotes == "Cannot calculate winner from empty votes list."

ErrNoValidVotes == "No valid votes remaining after filtering candidates."

ErrLengths == "All votes must have same number of candidates."

ErrEmptyBallot == "Votes cannot be empty."

ErrCandidates == "Need at least 2 candidates."

\* line 50: `if expected_candidates:` is the truth value of the argument;
\* None and the empty set are both false
Truthy(given, expected) == given /\ expected # {}

\* line 54 written sorted(set(vote) & expected_candidates): the voter's order
\* is lost
CleanVoteSorted(vote, expected) ==
    SelectSeq(<<"A", "B", "C">>, LAMBDA c : c \in expected /\ c \in Range(vote))

\* line 54: [c for c in vote if c in expected_candidates]
CleanVote(vote, expected) == SelectSeq(vote, LAMBDA c : c \in expected)

\* lines 51-57: the cleaned ballots that are not empty, in order
RECURSIVE CleanVotes(_, _)
CleanVotes(votes, expected) ==
    IF votes = <<>> THEN <<>>
    ELSE LET cleaned_vote == CleanVote(Head(votes), expected) IN
         IF cleaned_vote # <<>>
         THEN <<cleaned_vote>> \o CleanVotes(Tail(votes), expected)
         ELSE CleanVotes(Tail(votes), expected)

\* line 66
VoteLengths(votes) == {Len(votes[i]) : i \in 1..Len(votes)}

\* lines 71-73
UnionOfVotes(votes) == UNION {Range(votes[i]) : i \in 1..Len(votes)}

Raise(msg, votes, cands) ==
    [pc |-> "error", error |-> msg, votes |-> votes, cands |-> cands,
     winner |-> None, method |-> None]

\* lines 75-82 with the size test of line 78 placed before the test of line 75
CheckCandidatesSizeFirst(votes, cands) ==
    IF Cardinality(cands) < 2
    THEN IF Cardinality(cands) = 1
         THEN [pc |-> "done", error |-> "none", votes |-> votes, cands |-> cands,
               winner |-> CHOOSE c \in cands : TRUE, method |-> "condorcet"]
         ELSE Raise(ErrCandidates, votes, cands)
    ELSE IF votes[1] = <<>> THEN Raise(ErrEmptyBallot, votes, cands)
    ELSE [pc |-> "tabulate", error |-> "none", votes |-> votes, cands |-> cands,
          winner |-> None, method |-> None]

\* lines 75-82 without the return of lines 80-81
CheckCandidatesNoShortcut(votes, cands) ==
    IF votes[1] = <<>> THEN Raise(ErrEmptyBallot, votes, cands)
    ELSE IF Cardinality(cands) < 2 THEN Raise(ErrCandidates, votes, cands)
    ELSE [pc |-> "tabulate", error |-> "none", votes |-> votes, cands |-> cands,
          winner |-> None, method |-> None]

\* lines 75-82, with the locals votes_list and all_candidates settled
CheckCandidates(votes, cands) ==
    IF votes[1] = <<>> THEN Raise(ErrEmptyBallot, votes, cands)
    ELSE IF Cardinality(cands) < 2
    THEN IF Cardinality(cands) = 1
         THEN [pc |-> "done", error |-> "none", votes |-> votes, cands |-> cands,
               winner |-> CHOOSE c \in cands : TRUE, method |-> "condorcet"]
         ELSE Raise(ErrCandidates, votes, cands)
    ELSE [pc |-> "tabulate", error |-> "none", votes |-> votes, cands |-> cands,
          winner |-> None, method |-> None]

\* lines 46-82
Normalize(votes, given, expected) ==
    IF votes = <<>> THEN Raise(ErrEmptyVotes, votes, {})
    ELSE IF Truthy(given, expected)
    THEN LET cleaned_votes == CleanVotes(votes, expected) IN
         IF cleaned_votes = <<>> THEN Raise(ErrNoValidVotes, cleaned_votes, {})
         ELSE CheckCandidates(cleaned_votes, expected)
    ELSE IF Cardinality(VoteLengths(votes)) > 1 THEN Raise(ErrLengths, votes, {})
         ELSE CheckCandidates(votes, UnionOfVotes(votes))

\* lines 108-114 with Schulze tested by name and random as the last branch
DispatchRandomLast(method) ==
    IF method = "borda" THEN "borda"
    ELSE IF method = "schulze" THEN "schulze"
    ELSE "random"

\* lines 108-114: the branch taken for a tiebreaker_method
Dispatch(method) ==
    IF method = "borda" THEN "borda"
    ELSE IF method = "random" THEN "random"
    ELSE "schulze"

-----------------------------------------------------------------------------
(* get_ranking_statistics, utils.py:320-351 *)

\* the value of stats before the call
NoStats ==
    [total_votes |-> 0, candidates_count |-> 0,
     first_choice_votes |-> EmptyDict, pairwise_results |-> EmptyDict]

\* lines 341-344 with `first_choices[vote[0]] = 1`: the tally is set, not counted
RECURSIVE FirstChoicesSet(_, _)
FirstChoicesSet(first_choices, votes) ==
    IF votes = <<>> THEN first_choices
    ELSE FirstChoicesSet(
            IF Head(votes) # <<>>
            THEN [k \in DOMAIN first_choices \cup {Head(votes)[1]} |->
                    IF k = Head(votes)[1] THEN 1 ELSE first_choices[k]]
            ELSE first_choices,
            Tail(votes))

\* lines 341-344
RECURSIVE FirstChoices(_, _)
FirstChoices(first_choices, votes) ==
    IF votes = <<>> THEN first_choices
    ELSE FirstChoices(
            IF Head(votes) # <<>> THEN Add(first_choices, Head(votes)[1], 1)
            ELSE first_choices,
            Tail(votes))

\* lines 337-351
get_ranking_statistics(votes) ==
    LET candidates == UnionOfVotes(votes) IN
    [total_votes |-> Len(votes),
     candidates_count |-> Cardinality(candidates),
     first_choice_votes |-> FirstChoices(EmptyDict, votes),
     pairwise_results |-> calculate_pairwise_results(votes, candidates)]

-----------------------------------------------------------------------------
(* validate_ranking, utils.py:292-317 *)

\* lines 304-317 without the comparison of lines 309-311
validate_ranking_no_set_test(rank, expected) ==
    /\ ~(Len(rank) # Cardinality(expected))
    /\ ~(Len(rank) # Cardinality(Range(rank)))

\* lines 304-317: the three tests, each returning False when it fails
validate_ranking(rank, expected) ==
    /\ ~(Len(rank) # Cardinality(expected))
    /\ ~(Range(rank) # expected)
    /\ ~(Len(rank) # Cardinality(Range(rank)))

-----------------------------------------------------------------------------
(* The poll of src/voting/models.py and the browser sessions *)

\* the browser sessions that send requests, each from its own device
Sessions == {"s1", "s2"}

\* the PollToken rows of the poll
Tokens == {"t1", "t2"}

\* no token id in the session, no token on a Vote, no holder of a row lock
NoToken == "none"

\* largest max_votes tried; 0 stands for None (models.py:97-102)
MaxLimit == 2

\* the Poll row before any request (models.py:61-106)
NewPoll(requires_auth, max_votes) ==
    [is_active |-> TRUE, results_released |-> FALSE,
     requires_auth |-> requires_auth, max_votes |-> max_votes]

\* no results request answered yet
NoResponse ==
    [endpoint |-> "none", winner |-> FALSE, is_creator |-> FALSE,
     is_active |-> TRUE, results_released |-> FALSE]

site == <<poll, token_used, token_lock, sessions, vote_records, response>>

\* the tabulator called on its own: no poll and no request
SiteIdle ==
    /\ poll = NewPoll(FALSE, 0)
    /\ token_used = {}
    /\ token_lock = [t \in Tokens |-> NoToken]
    /\ sessions = [s \in Sessions |-> [pc |-> "idle", token |-> NoToken]]
    /\ vote_records = <<>>
    /\ response = NoResponse

-----------------------------------------------------------------------------
(* One call of calculate_condorcet_winner *)

Init ==
    /\ arg_votes \in VoteLists
    /\ tiebreaker_method \in TiebreakerMethods
    /\ expected_given \in BOOLEAN
    /\ expected_candidates \in (IF expected_given THEN ExpectedSets ELSE {{}})
    /\ pc = "start"
    /\ votes_list = arg_votes
    /\ all_candidates = {}
    /\ pairwise_results = EmptyDict
    /\ strength = EmptyDict
    /\ winner = None
    /\ method_used = None
    /\ error = "none"
    /\ stats = NoStats
    /\ ranking = <<>>
    /\ is_valid = FALSE
    /\ SiteIdle

args == <<arg_votes, tiebreaker_method, expected_given, expected_candidates>>

\* what the helpers called on their own leave behind
helpers == <<stats, ranking, is_valid>>

\* lines 46-82
NormalizeVotes ==
    /\ pc = "start"
    /\ LET r == Normalize(arg_votes, expected_given, expected_candidates) IN
        /\ pc' = r.pc
        /\ error' = r.error
        /\ votes_list' = r.votes
        /\ all_candidates' = r.cands
        /\ winner' = r.winner
        /\ method_used' = r.method
    /\ UNCHANGED <<args, helpers, site, pairwise_results, strength>>

\* lines 87-103
Tabulate ==
    /\ pc = "tabulate"
    /\ pairwise_results' = calculate_pairwise_results(votes_list, all_candidates)
    /\ \E order \in Perms(all_candidates) :
        LET condorcet_winner == find_condorcet_winner(pairwise_results', order) IN
        IF condorcet_winner # None
        THEN /\ winner' = condorcet_winner
             /\ method_used' = "condorcet"
             /\ pc' = "done"
        ELSE /\ pc' = "tiebreak"
             /\ UNCHANGED <<winner, method_used>>
    /\ UNCHANGED <<args, helpers, site, votes_list, all_candidates, strength, error>>

\* lines 108-109
BordaTiebreak ==
    /\ pc = "tiebreak"
    /\ Dispatch(tiebreaker_method) = "borda"
    /\ winner' = borda_count_tiebreaker(votes_list)
    /\ method_used' = "borda"
    /\ pc' = "done"
    /\ UNCHANGED <<args, helpers, site, votes_list, all_candidates, pairwise_results, strength, error>>

\* lines 110-111
RandomTiebreak ==
    /\ pc = "tiebreak"
    /\ Dispatch(tiebreaker_method) = "random"
    /\ winner' \in random_tiebreaker(all_candidates)
    /\ method_used' = "random"
    /\ pc' = "done"
    /\ UNCHANGED <<args, helpers, site, votes_list, all_candidates, pairwise_results, strength, error>>

\* lines 112-114
SchulzeTiebreak ==
    /\ pc = "tiebreak"
    /\ Dispatch(tiebreaker_method) = "schulze"
    /\ \E candidates_list \in Perms(all_candidates) :
        /\ strength' = SchulzeStrength(pairwise_results, candidates_list)
        /\ winner' \in schulze_method(pairwise_results, candidates_list)
    /\ method_used' = "schulze"
    /\ pc' = "done"
    /\ UNCHANGED <<args, helpers, site, votes_list, all_candidates, pairwise_results, error>>

Next == NormalizeVotes \/ Tabulate \/ BordaTiebreak \/ RandomTiebreak \/ SchulzeTiebreak

Spec == Init /\ [][Next]_vars

-----------------------------------------------------------------------------
(* find_condorcet_winner and schulze_method called on their own *)

PairKeys == {p \in Candidates \X Candidates : p[1] # p[2]}

\* pairwise dictionaries: a key is present only with a positive count, as in
\* the dictionaries calculate_pairwise_results builds; an absent key is a 0
Matrices == UNION {[K -> 1..MaxCount] : K \in SUBSET PairKeys}

InitMatrix ==
    /\ pairwise_results \in Matrices
    /\ all_candidates \in SUBSET Candidates
    /\ pc = "matrix"
    /\ arg_votes = <<>>
    /\ votes_list = <<>>
    /\ tiebreaker_method = "schulze"
    /\ expected_given = FALSE
    /\ expected_candidates = {}
    /\ strength = EmptyDict
    /\ winner = None
    /\ method_used = None
    /\ error = "none"
    /\ stats = NoStats
    /\ ranking = <<>>
    /\ is_valid = FALSE
    /\ SiteIdle

\* utils.py:148-185
FindCall ==
    /\ pc = "matrix"
    /\ \E order \in Perms(all_candidates) :
        winner' = find_condorcet_winner(pairwise_results, order)
    /\ pc' = "found"
    /\ UNCHANGED <<args, helpers, site, votes_list, all_candidates, pairwise_results, strength,
                   method_used, error>>

\* utils.py:188-262
SchulzeCall ==
    /\ pc = "matrix"
    /\ \E candidates_list \in Perms(all_candidates) :
        /\ strength' = SchulzeStrength(pairwise_results, candidates_list)
        /\ IF candidates_list = <<>>
           THEN error' = "IndexError" /\ winner' = None
           ELSE /\ winner' \in schulze_method(pairwise_results, candidates_list)
                /\ error' = "none"
    /\ pc' = "schulze"
    /\ UNCHANGED <<args, helpers, site, votes_list, all_candidates, pairwise_results, method_used>>

NextMatrix == FindCall \/ SchulzeCall

SpecMatrix == InitMatrix /\ [][NextMatrix]_vars

-----------------------------------------------------------------------------
(* calculate_condorcet_winner called on a poll where every candidate has   *)
(* one ballot's worth of voters: as many ballots as candidates, each a     *)
(* full ranking as vote_poll stores it (views.py:353-370)                  *)

FullRankings == Perms(Candidates)

FullVoteLists == [1..Cardinality(Candidates) -> FullRankings]

InitFullRankings ==
    /\ arg_votes \in FullVoteLists
    /\ tiebreaker_method \in TiebreakerMethods
    /\ expected_given = FALSE
    /\ expected_candidates = {}
    /\ pc = "start"
    /\ votes_list = arg_votes
    /\ all_candidates = {}
    /\ pairwise_results = EmptyDict
    /\ strength = EmptyDict
    /\ winner = None
    /\ method_used = None
    /\ error = "none"
    /\ stats = NoStats
    /\ ranking = <<>>
    /\ is_valid = FALSE
    /\ SiteIdle

SpecFullRankings == InitFullRankings /\ [][Next]_vars

-----------------------------------------------------------------------------
(* calculate_condorcet_winner called as results_poll calls it, with the    *)
(* poll's candidates as expected set, on ballots that may each rank only   *)
(* some of them (views.py:476-493)                                         *)

PartialRankings == Ballots \ {<<>>}

PartialVoteLists == [1..Cardinality(Candidates) -> PartialRankings]

InitPartialRankings ==
    /\ arg_votes \in PartialVoteLists
    /\ tiebreaker_method \in TiebreakerMethods
    /\ expected_given = TRUE
    /\ expected_candidates = Candidates
    /\ pc = "start"
    /\ votes_list = arg_votes
    /\ all_candidates = {}
    /\ pairwise_results = EmptyDict
    /\ strength = EmptyDict
    /\ winner = None
    /\ method_used = None
    /\ error = "none"
    /\ stats = NoStats
    /\ ranking = <<>>
    /\ is_valid = FALSE
    /\ SiteIdle

SpecPartialRankings == InitPartialRankings /\ [][Next]_vars

-----------------------------------------------------------------------------
(* get_ranking_statistics called on the stored ballots (views.py:476-502) *)

InitStats ==
    /\ arg_votes \in VoteLists
    /\ pc = "stats"
    /\ votes_list = arg_votes
    /\ tiebreaker_method = "schulze"
    /\ expected_given = FALSE
    /\ expected_candidates = {}
    /\ all_candidates = {}
    /\ pairwise_results = EmptyDict
    /\ strength = EmptyDict
    /\ winner = None
    /\ method_used = None
    /\ error = "none"
    /\ stats = NoStats
    /\ ranking = <<>>
    /\ is_valid = FALSE
    /\ SiteIdle

\* utils.py:320-351
StatsCall ==
    /\ pc = "stats"
    /\ stats' = get_ranking_statistics(votes_list)
    /\ pc' = "stats_done"
    /\ UNCHANGED <<args, site, votes_list, all_candidates, pairwise_results, strength,
                   winner, method_used, error, ranking, is_valid>>

NextStats == StatsCall

SpecStats == InitStats /\ [][NextStats]_vars

-----------------------------------------------------------------------------
(* validate_ranking called on the ranking vote_poll builds (views.py:353-363) *)

\* longest ranking tried
MaxRanking == 3

\* what a position of the ranking may hold: a candidate identifier, or the ''
\* that views.py:354 puts in every position before the ranks are filled in
RankingEntries == Candidates \cup {""}

Rankings == UNION {[1..n -> RankingEntries] : n \in 0..MaxRanking}

InitRanking ==
    /\ ranking \in Rankings
    /\ expected_candidates \in SUBSET Candidates
    /\ expected_given = TRUE
    /\ pc = "validate"
    /\ arg_votes = <<>>
    /\ votes_list = <<>>
    /\ tiebreaker_method = "schulze"
    /\ all_candidates = {}
    /\ pairwise_results = EmptyDict
    /\ strength = EmptyDict
    /\ winner = None
    /\ method_used = None
    /\ error = "none"
    /\ stats = NoStats
    /\ is_valid = FALSE
    /\ SiteIdle

\* utils.py:292-317
ValidateCall ==
    /\ pc = "validate"
    /\ is_valid' = validate_ranking(ranking, expected_candidates)
    /\ pc' = "validated"
    /\ UNCHANGED <<args, site, votes_list, all_candidates, pairwise_results, strength,
                   winner, method_used, error, stats, ranking>>

NextRanking == ValidateCall

SpecRanking == InitRanking /\ [][NextRanking]_vars

-----------------------------------------------------------------------------
(* The requests of src/voting/views.py on one poll *)

\* the variables of the tabulator, which no request of SpecPoll touches
tabulator == <<arg_votes, tiebreaker_method, expected_given, expected_candidates,
               pc, votes_list, all_candidates, pairwise_results, strength,
               winner, method_used, error, stats, ranking, is_valid>>

InitPoll ==
    /\ poll \in {NewPoll(a, m) : a \in BOOLEAN, m \in 0..MaxLimit}
    /\ token_used = {}
    /\ token_lock = [t \in Tokens |-> NoToken]
    /\ sessions = [s \in Sessions |-> [pc |-> "idle", token |-> NoToken]]
    /\ vote_records = <<>>
    /\ response = NoResponse
    /\ pc = "poll"
    /\ arg_votes = <<>>
    /\ votes_list = <<>>
    /\ tiebreaker_method = "schulze"
    /\ expected_given = FALSE
    /\ expected_candidates = {}
    /\ all_candidates = {}
    /\ pairwise_results = EmptyDict
    /\ strength = EmptyDict
    /\ winner = None
    /\ method_used = None
    /\ error = "none"
    /\ stats = NoStats
    /\ ranking = <<>>
    /\ is_valid = FALSE

\* models.py:141-147, Poll.can_accept_votes with get_vote_count() = count
can_accept_votes(p, count) ==
    IF ~p.is_active THEN FALSE
    ELSE IF p.max_votes # 0 /\ count >= p.max_votes THEN FALSE
    ELSE TRUE

\* views.py:198-220: vote_poll goes on past its redirects
VoteGate(p, count) == p.is_active /\ can_accept_votes(p, count)

\* views.py:297-300: a Vote of the poll carries the device's fingerprint
HasVoted(records, s) == \E i \in 1..Len(records) : records[i].session = s

\* views.py:340 without select_for_update(): the row is read while another
\* transaction holds it
RowLockIgnored(lock, t) == TRUE

\* views.py:340: select_for_update() waits while another transaction holds
\* the lock of the row
RowLockFree(lock, t) == lock[t] = NoToken

\* views.py:223-256: a POST of the password form by a session that is not yet
\* authenticated; the password is that of token t
Authenticate(s, t) ==
    /\ sessions[s].pc = "idle"
    /\ VoteGate(poll, Len(vote_records))
    /\ poll.requires_auth
    /\ sessions[s].token = NoToken
    /\ t \notin token_used
    /\ sessions' = [sessions EXCEPT ![s].token = t]
    /\ UNCHANGED <<tabulator, poll, token_used, token_lock, vote_records, response>>

\* views.py:198-326: a POST of the vote form up to the transaction: the poll
\* is active and below its limit, the session is authenticated if the poll
\* requires it, and otherwise the device has no Vote on the poll yet
VoteCheck(s) ==
    /\ sessions[s].pc = "idle"
    /\ VoteGate(poll, Len(vote_records))
    /\ IF poll.requires_auth
       THEN sessions[s].token # NoToken
       ELSE ~HasVoted(vote_records, s)
    /\ sessions' = [sessions EXCEPT ![s].pc = "checked"]
    /\ UNCHANGED <<tabulator, poll, token_used, token_lock, vote_records, response>>

\* views.py:326-327, 413-417: the form is not valid, nothing is recorded
RejectForm(s) ==
    /\ sessions[s].pc = "checked"
    /\ sessions' = [sessions EXCEPT ![s].pc = "idle"]
    /\ UNCHANGED <<tabulator, poll, token_used, token_lock, vote_records, response>>

\* views.py:329-350: inside the transaction, the row of the session's token
\* is fetched with is_used = False under a row lock; DoesNotExist clears the
\* session and ends the request
LockToken(s) ==
    /\ sessions[s].pc = "checked"
    /\ poll.requires_auth
    /\ LET t == sessions[s].token IN
       /\ RowLockFree(token_lock, t)
       /\ IF t \in token_used
          THEN /\ sessions' = [sessions EXCEPT ![s] = [pc |-> "idle", token |-> NoToken]]
               /\ UNCHANGED token_lock
          ELSE /\ sessions' = [sessions EXCEPT ![s].pc = "locked"]
               /\ token_lock' = [token_lock EXCEPT ![t] = s]
    /\ UNCHANGED <<tabulator, poll, token_used, vote_records, response>>

\* views.py:341-370 and the end of the atomic block: the token is saved as
\* used, the session key deleted, the Vote created, the transaction committed
CommitVote(s) ==
    /\ sessions[s].pc = "locked"
    /\ LET t == sessions[s].token IN
       /\ token_used' = token_used \cup {t}
       /\ token_lock' = [token_lock EXCEPT ![t] = NoToken]
       /\ vote_records' = Append(vote_records, [session |-> s, token |-> t])
    /\ sessions' = [sessions EXCEPT ![s] = [pc |-> "idle", token |-> NoToken]]
    /\ UNCHANGED <<tabulator, poll, response>>

\* views.py:361-362, 408-416: an exception inside the atomic block rolls the
\* transaction back; the token stays unused, the session key is gone
RollbackVote(s) ==
    /\ sessions[s].pc = "locked"
    /\ token_lock' = [token_lock EXCEPT ![sessions[s].token] = NoToken]
    /\ sessions' = [sessions EXCEPT ![s] = [pc |-> "idle", token |-> NoToken]]
    /\ UNCHANGED <<tabulator, poll, token_used, vote_records, response>>

\* views.py:352-406 on a poll without passwords: the Vote is created
CreateVote(s) ==
    /\ sessions[s].pc = "checked"
    /\ ~poll.requires_auth
    /\ vote_records' = Append(vote_records, [session |-> s, token |-> NoToken])
    /\ sessions' = [sessions EXCEPT ![s].pc = "idle"]
    /\ UNCHANGED <<tabulator, poll, token_used, token_lock, response>>

\* views.py:670-678: creator_dashboard, actions close and reopen
SetActive(b) ==
    /\ poll.is_active # b
    /\ poll' = [poll EXCEPT !.is_active = b]
    /\ UNCHANGED <<tabulator, token_used, token_lock, sessions, vote_records, response>>

\* views.py:684-693: creator_dashboard, actions release_results and
\* hide_results
SetResultsReleased(b) ==
    /\ poll.results_released # b
    /\ poll' = [poll EXCEPT !.results_released = b]
    /\ UNCHANGED <<tabulator, token_used, token_lock, sessions, vote_records, response>>

\* what a results request is answered with
Answer(endpoint, is_creator, shows_winner) ==
    [endpoint |-> endpoint, winner |-> shows_winner, is_creator |-> is_creator,
     is_active |-> poll.is_active, results_released |-> poll.results_released]

\* views.py:463-493: results_poll; the winner is computed when access is
\* granted and the poll has votes
ResultsPoll(is_creator) ==
    /\ response' =
          IF poll.is_active /\ ~(is_creator \/ poll.results_released)
          THEN Answer("results_poll", is_creator, FALSE)
          ELSE Answer("results_poll", is_creator, vote_records # <<>>)
    /\ UNCHANGED <<tabulator, poll, token_used, token_lock, sessions, vote_records>>

\* views.py:768-821: poll_api_results; the winner is computed when the poll
\* has votes
ApiResults(is_creator) ==
    /\ response' = Answer("poll_api_results", is_creator, vote_records # <<>>)
    /\ UNCHANGED <<tabulator, poll, token_used, token_lock, sessions, vote_records>>

\* views.py:647-655, 704-723: creator_dashboard lists the polls of the
\* creator_code in the URL, with their winners
CreatorDashboard(is_creator) ==
    /\ response' = Answer("creator_dashboard", is_creator,
                          is_creator /\ vote_records # <<>>)
    /\ UNCHANGED <<tabulator, poll, token_used, token_lock, sessions, vote_records>>

NextPoll ==
    \/ \E s \in Sessions : \E t \in Tokens : Authenticate(s, t)
    \/ \E s \in Sessions : VoteCheck(s)
    \/ \E s \in Sessions : RejectForm(s)
    \/ \E s \in Sessions : LockToken(s)
    \/ \E s \in Sessions : CommitVote(s)
    \/ \E s \in Sessions : RollbackVote(s)
    \/ \E s \in Sessions : CreateVote(s)
    \/ \E b \in BOOLEAN : SetActive(b)
    \/ \E b \in BOOLEAN : SetResultsReleased(b)
    \/ \E is_creator \in BOOLEAN : ResultsPoll(is_creator)
    \/ \E is_creator \in BOOLEAN : ApiResults(is_creator)
    \/ \E is_creator \in BOOLEAN : CreatorDashboard(is_creator)

SpecPoll == InitPoll /\ [][NextPoll]_vars

-----------------------------------------------------------------------------
(* Reference definitions the properties are stated with *)

\* the call of calculate_condorcet_winner has returned or raised
Finished == pc \in {"done", "error"}

\* lines 87-103 have run
Tabulated == pc = "tiebreak" \/ (pc = "done" /\ Cardinality(all_candidates) >= 2)

\* number of (ballot, i, j) with i < j, ballot[i] = a and ballot[j] = b
PairCount(votes, a, b) ==
    Cardinality({t \in (1..Len(votes)) \X (1..Cardinality(Candidates)) \X (1..Cardinality(Candidates)) :
        /\ t[2] < t[3]
        /\ t[3] <= Len(votes[t[1]])
        /\ votes[t[1]][t[2]] = a
        /\ votes[t[1]][t[3]] = b})

\* c strictly beats every other candidate of cands on the ballots
BeatsAllOnBallots(votes, c, cands) ==
    \A o \in cands \ {c} : PairCount(votes, c, o) > PairCount(votes, o, c)

\* c strictly beats every other candidate of cands in the dictionary
BeatsAllInMatrix(pw, c, cands) ==
    \A o \in cands \ {c} : Get(pw, c, o) > Get(pw, o, c)

-----------------------------------------------------------------------------
\* C1: Condorcet priority. Once the call has passed the Condorcet test, a
\* candidate of the universe that strictly beats every other candidate of the
\* universe on the ballots counted is the returned winner, with method_used
\* 'condorcet', whatever tiebreaker_method is; the call is in (or past) the
\* tiebreaker only when no candidate of the universe does so.
CondorcetPriority ==
    /\ pc = "done" =>
        \A c \in all_candidates :
            BeatsAllOnBallots(votes_list, c, all_candidates)
                => winner = c /\ method_used = "condorcet"
    /\ (pc = "tiebreak" \/ method_used \in {"schulze", "borda", "random"}) =>
        ~ \E c \in all_candidates : BeatsAllOnBallots(votes_list, c, all_candidates)

\* a Condorcet winner among three candidates, returned although the caller
\* asked for the Borda tiebreaker
CondorcetPriorityWitness ==
    /\ pc = "done"
    /\ method_used = "condorcet"
    /\ tiebreaker_method = "borda"
    /\ Cardinality(all_candidates) = 3
    /\ BeatsAllOnBallots(votes_list, winner, all_candidates)

-----------------------------------------------------------------------------
\* C2: find_condorcet_winner returns candidate c of the universe if and only
\* if c strictly beats every other candidate of the universe (an absent entry
\* counting 0, a tie or a loss disqualifying c), and returns None exactly when
\* no candidate of the universe does.
FindCondorcetExact ==
    pc = "found" =>
        /\ \A c \in all_candidates :
            winner = c <=> BeatsAllInMatrix(pairwise_results, c, all_candidates)
        /\ winner = None <=>
            ~ \E c \in all_candidates : BeatsAllInMatrix(pairwise_results, c, all_candidates)
        /\ winner \in all_candidates \cup {None}

\* a winner found among three candidates, one of its contests decided
\* against an absent entry (read as 0) and another won 2 to 1
FindCondorcetExactWitness ==
    /\ pc = "found"
    /\ all_candidates = Candidates
    /\ winner = "A"
    /\ <<"B", "A">> \notin DOMAIN pairwise_results
    /\ Get(pairwise_results, "A", "C") = 2
    /\ Get(pairwise_results, "C", "A") = 1

-----------------------------------------------------------------------------
\* C9: Condorcet winner uniqueness. At most one candidate of the universe
\* strictly beats every other one, and find_condorcet_winner returns the same
\* result for every order in which the universe is iterated.
CondorcetUnique ==
    pc = "found" =>
        /\ Cardinality({c \in all_candidates :
                BeatsAllInMatrix(pairwise_results, c, all_candidates)}) <= 1
        /\ \A order \in Perms(all_candidates) :
            find_condorcet_winner(pairwise_results, order) = winner

\* the winner is the candidate iterated last in one order and first in another
CondorcetUniqueWitness ==
    /\ pc = "found"
    /\ all_candidates = Candidates
    /\ winner = "C"
    /\ find_condorcet_winner(pairwise_results, <<"A", "B", "C">>) = "C"
    /\ find_condorcet_winner(pairwise_results, <<"C", "B", "A">>) = "C"
    /\ Get(pairwise_results, "A", "B") = Get(pairwise_results, "B", "A")

-----------------------------------------------------------------------------
\* C3: the dictionary of calculate_pairwise_results holds, for every ordered
\* pair (a, b), the number of (ballot, i, j) with i < j, ballot[i] = a and
\* ballot[j] = b over all ballots; a pair that never occurs in that order is
\* absent from the dictionary, and dict.get(pair, 0) reads it as 0.
PairwiseCounts ==
    Tabulated =>
        \A a, b \in Candidates :
            /\ Get(pairwise_results, a, b) = PairCount(votes_list, a, b)
            /\ <<a, b>> \in DOMAIN pairwise_results <=> PairCount(votes_list, a, b) > 0

\* two ballots, both ranking A over B (not adjacent on one of them), and no
\* ballot ranking C over A
PairwiseCountsWitness ==
    /\ Tabulated
    /\ Len(votes_list) = 2
    /\ votes_list[1] = <<"A", "C", "B">>
    /\ pairwise_results[<<"A", "B">>] = 2
    /\ <<"C", "A">> \notin DOMAIN pairwise_results
    /\ <<"B", "A">> \notin DOMAIN pairwise_results

-----------------------------------------------------------------------------
(* Widest paths, defined on paths instead of by relaxation *)

MinOf(S) == CHOOSE x \in S : \A y \in S : x <= y

MaxOf(S) == CHOOSE x \in S : \A y \in S : x >= y

\* paths from i to j through distinct candidates of cands
SimplePaths(i, j, cands) ==
    {p \in UNION {[1..n -> cands] : n \in 2..Cardinality(cands)} :
        /\ p[1] = i
        /\ p[Len(p)] = j
        /\ \A x, y \in 1..Len(p) : p[x] = p[y] => x = y}

\* the weakest link of a path, a link being the raw count of the dictionary
PathWidth(pw, p) == MinOf({Get(pw, p[x], p[x + 1]) : x \in 1..(Len(p) - 1)})

\* p(i, j): the strength of the strongest path from i to j
PathStrength(pw, i, j, cands) ==
    MaxOf({PathWidth(pw, p) : p \in SimplePaths(i, j, cands)})

\* W = { i : for every j # i, p(j, i) <= p(i, j) }
SchulzeSet(pw, cands) ==
    {i \in cands : \A j \in cands \ {i} :
        PathStrength(pw, j, i, cands) <= PathStrength(pw, i, j, cands)}

-----------------------------------------------------------------------------
\* C5: on a non-empty universe schulze_method returns a member of
\* W = { i : for every j # i, p(j,i) <= p(i,j) }, where p is the widest-path
\* strength over links d(i,j) = raw count(i,j); the matrix the relaxation loop
\* leaves is p off the diagonal and 0 on it; and when W has exactly one member
\* the call can return nothing else, for every order of candidates_list and
\* every random choice.
SchulzeReturnsWidestPathWinner ==
    (pc = "schulze" /\ all_candidates # {}) =>
        /\ winner \in SchulzeSet(pairwise_results, all_candidates)
        /\ \A i, j \in all_candidates :
            strength[<<i, j>>] =
                IF i = j THEN 0 ELSE PathStrength(pairwise_results, i, j, all_candidates)
        /\ Cardinality(SchulzeSet(pairwise_results, all_candidates)) = 1 =>
            \A cl \in Perms(all_candidates) :
                schulze_method(pairwise_results, cl) = {winner}

\* three candidates, no Condorcet winner, a path through a third candidate
\* stronger than the direct link, and a single Schulze winner
SchulzeReturnsWidestPathWinnerWitness ==
    /\ pc = "schulze"
    /\ all_candidates = Candidates
    /\ ~ \E c \in all_candidates : BeatsAllInMatrix(pairwise_results, c, all_candidates)
    /\ SchulzeSet(pairwise_results, all_candidates) = {winner}
    /\ \E i, j \in all_candidates :
        i # j /\ strength[<<i, j>>] > Get(pairwise_results, i, j)

-----------------------------------------------------------------------------
(* Borda totals, defined per candidate instead of by accumulation *)

\* the (ballot, position) places where c stands, positions counted from 1
Places(votes, c) ==
    {t \in (1..Len(votes)) \X (1..Cardinality(Candidates)) :
        t[2] <= Len(votes[t[1]]) /\ votes[t[1]][t[2]] = c}

\* sum of n - p over a set of places, p being the 0-indexed position
RECURSIVE SumOfPoints(_, _)
SumOfPoints(places, n) ==
    IF places = {} THEN 0
    ELSE LET t == CHOOSE x \in places : TRUE IN
         (n - (t[2] - 1)) + SumOfPoints(places \ {t}, n)

\* n is the number of candidates on the first ballot, which is the number of
\* candidates per ballot when the ballots have one length
BordaTotal(votes, c) == SumOfPoints(Places(votes, c), Len(votes[1]))

-----------------------------------------------------------------------------
\* C6: borda_count_tiebreaker gives the candidate at 0-indexed position p of
\* each ballot n - p points (n the number of candidates of the first ballot),
\* sums the points per candidate over all ballots, holds a score for exactly
\* the candidates that appear on a ballot, and returns a candidate whose total
\* is maximal among them.
BordaMaximalTotal ==
    (pc = "done" /\ method_used = "borda") =>
        LET scores == BordaScores(votes_list) IN
        /\ {scores[k][1] : k \in 1..Len(scores)} = UnionOfVotes(votes_list)
        /\ \A k \in 1..Len(scores) : scores[k][2] = BordaTotal(votes_list, scores[k][1])
        /\ winner \in UnionOfVotes(votes_list)
        /\ \A c \in UnionOfVotes(votes_list) :
            BordaTotal(votes_list, winner) >= BordaTotal(votes_list, c)

\* two ballots over three candidates without a Condorcet winner, the Borda
\* winner ahead of both other candidates and not the one with the first entry
BordaMaximalTotalWitness ==
    /\ pc = "done"
    /\ method_used = "borda"
    /\ Len(votes_list) = 2
    /\ UnionOfVotes(votes_list) = Candidates
    /\ winner # votes_list[1][1]
    /\ \A c \in Candidates \ {winner} :
        BordaTotal(votes_list, winner) > BordaTotal(votes_list, c)

-----------------------------------------------------------------------------
\* C7: without a Condorcet winner the call returns (Borda result, 'borda') for
\* tiebreaker_method 'borda', (a member of the universe, 'random') for
\* 'random' and (Schulze result, 'schulze') for 'schulze' and every other
\* value; method_used of a returned result is one of 'condorcet', 'schulze',
\* 'borda', 'random' and names what produced the winner: 'condorcet' only for
\* a candidate that beats all others, 'schulze' exactly when the Schulze
\* relaxation has run.
TiebreakerDispatch ==
    /\ method_used \in {None, "condorcet", "schulze", "borda", "random"}
    /\ pc = "done" => method_used # None
    /\ method_used = "condorcet" => BeatsAllOnBallots(votes_list, winner, all_candidates)
    /\ method_used = "schulze" <=> strength # EmptyDict
    /\ (pc = "done" /\ ~ \E c \in all_candidates :
                            BeatsAllOnBallots(votes_list, c, all_candidates)) =>
        /\ tiebreaker_method = "borda" =>
            /\ method_used = "borda"
            /\ \A c \in UnionOfVotes(votes_list) :
                BordaTotal(votes_list, winner) >= BordaTotal(votes_list, c)
        /\ tiebreaker_method = "random" =>
            /\ method_used = "random"
            /\ winner \in all_candidates
        /\ tiebreaker_method \notin {"borda", "random"} =>
            /\ method_used = "schulze"
            /\ winner \in SchulzeSet(pairwise_results, all_candidates)

\* a tiebreaker_method that is none of the three names, resolved by Schulze
TiebreakerDispatchWitness ==
    /\ pc = "done"
    /\ tiebreaker_method = "other"
    /\ method_used = "schulze"
    /\ Cardinality(all_candidates) = 3
    /\ Len(votes_list) = 2

-----------------------------------------------------------------------------
(* Filtering, defined by what is kept instead of by construction *)

StrictlyIncreasing(f) == \A x, y \in DOMAIN f : x < y => f[x] < f[y]

\* clean is raw with the identifiers outside expected removed and the order
\* and multiplicity of the others kept
IsRestrictionOf(clean, raw, expected) ==
    LET keep == {p \in 1..Len(raw) : raw[p] \in expected} IN
    /\ Len(clean) = Cardinality(keep)
    /\ \E g \in [1..Len(clean) -> keep] :
        /\ StrictlyIncreasing(g)
        /\ \A k \in 1..Len(clean) : clean[k] = raw[g[k]]

\* cleaned holds, in order, the restriction of every ballot that keeps at
\* least one identifier, and nothing else
IsFilteredFrom(cleaned, votes, expected) ==
    LET keep == {i \in 1..Len(votes) : Range(votes[i]) \cap expected # {}} IN
    /\ Len(cleaned) = Cardinality(keep)
    /\ \E f \in [1..Len(cleaned) -> keep] :
        /\ StrictlyIncreasing(f)
        /\ \A k \in 1..Len(cleaned) : IsRestrictionOf(cleaned[k], votes[f[k]], expected)

\* lines 47, 60 and 76: the empty-input failures
EmptyInputErrors == {ErrEmptyVotes, ErrNoValidVotes, ErrEmptyBallot}

-----------------------------------------------------------------------------
\* C4: when an expected candidate set is supplied and the call goes on to
\* count, the ballots counted are the raw ballots restricted to the expected
\* set (order kept, nothing added), without those that became empty, and the
\* universe used for the Condorcet test and the tiebreaker is exactly the
\* expected set.
FilterToExpected ==
    (expected_given /\ pc \in {"tabulate", "tiebreak", "done"}) =>
        /\ IsFilteredFrom(votes_list, arg_votes, expected_candidates)
        /\ all_candidates = expected_candidates

\* C4, for an expected set that is not empty: the statement holds
FilterToNonEmptyExpected ==
    (expected_given /\ expected_candidates # {} /\ arg_votes # <<>> /\ pc # "start") =>
        /\ IsFilteredFrom(votes_list, arg_votes, expected_candidates)
        /\ pc \in {"tabulate", "tiebreak", "done"} => all_candidates = expected_candidates

\* a ballot loses its middle identifier, another ballot is dropped, and the
\* universe keeps an expected candidate that no counted ballot ranks
FilterToNonEmptyExpectedWitness ==
    /\ pc = "done"
    /\ expected_given
    /\ expected_candidates = {"A", "C"}
    /\ arg_votes = <<<<"B">>, <<"A", "B", "C">>>>
    /\ votes_list = <<<<"A", "C">>>>
    /\ all_candidates = {"A", "C"}

-----------------------------------------------------------------------------
\* C8: unanimity. When the ballot list is not empty, all ballots hold the
\* same candidates and rank the same candidate X first, and
\* expected_candidates is absent or contains the ballots' candidates, the call
\* returns (X, 'condorcet') for every tiebreaker_method.
Unanimity ==
    \A X \in Candidates : \A S \in SUBSET Candidates :
        ( /\ Finished
          /\ arg_votes # <<>>
          /\ \A i \in 1..Len(arg_votes) :
                /\ Range(arg_votes[i]) = S
                /\ arg_votes[i] # <<>>
                /\ arg_votes[i][1] = X
          /\ ~expected_given \/ S \subseteq expected_candidates )
        => (winner = X /\ method_used = "condorcet")

\* C8, for expected_candidates absent or equal to the ballots' candidate set
UnanimityOnBallotCandidates ==
    \A X \in Candidates : \A S \in SUBSET Candidates :
        ( /\ Finished
          /\ arg_votes # <<>>
          /\ \A i \in 1..Len(arg_votes) :
                /\ Range(arg_votes[i]) = S
                /\ arg_votes[i] # <<>>
                /\ arg_votes[i][1] = X
          /\ ~expected_given \/ S = expected_candidates )
        => (winner = X /\ method_used = "condorcet")

-----------------------------------------------------------------------------
\* C10: the call fails with an empty-input error and returns no winner when
\* the raw ballot list is empty, when an expected set is supplied (the empty
\* set included) and no ballot keeps a member of it, and when no expected set
\* is supplied and some ballot is empty.
EmptyInputFails ==
    ( /\ Finished
      /\ \/ arg_votes = <<>>
         \/ expected_given /\ \A i \in 1..Len(arg_votes) :
                                Range(arg_votes[i]) \cap expected_candidates = {}
         \/ ~expected_given /\ \E i \in 1..Len(arg_votes) : arg_votes[i] = <<>> )
    => (pc = "error" /\ error \in EmptyInputErrors /\ winner = None)

\* C10, for an expected set that is absent or not empty and ballots that are
\* all empty when one is: the call fails with an empty-input error
EmptyInputFailsWhenTruthy ==
    ( /\ Finished
      /\ \/ arg_votes = <<>>
         \/ /\ expected_given
            /\ expected_candidates # {}
            /\ \A i \in 1..Len(arg_votes) :
                Range(arg_votes[i]) \cap expected_candidates = {}
         \/ ~expected_given /\ \A i \in 1..Len(arg_votes) : arg_votes[i] = <<>> )
    => (pc = "error" /\ error \in EmptyInputErrors /\ winner = None)

-----------------------------------------------------------------------------
(* The candidate universe, utils.py:49-82 *)

\* the identifiers that appear on some ballot of the list
Identifiers(votes) ==
    {c \in Candidates : \E i \in 1..Len(votes) : c \in Range(votes[i])}

\* two ballots of the list differ in length
LengthsDiffer(votes) ==
    \E i, j \in 1..Len(votes) : Len(votes[i]) # Len(votes[j])

\* the call got past the ballot list tests of lines 46-68, so that
\* all_candidates holds the universe of line 63 or lines 71-73
UniverseResolved ==
    pc # "start" /\ error \notin {ErrEmptyVotes, ErrNoValidVotes, ErrLengths}

\* C11: without an expected set the call fails with the inconsistent ballot
\* length error whenever two ballots differ in length, and otherwise the
\* universe is the union of the identifiers on the ballots; with an expected
\* set supplied (the empty set included) this error is never raised.
LengthErrorOnlyWithoutExpected ==
    pc # "start" =>
        /\ (~expected_given /\ LengthsDiffer(arg_votes))
              => (pc = "error" /\ error = ErrLengths)
        /\ (~expected_given /\ UniverseResolved)
              => all_candidates = Identifiers(arg_votes)
        /\ expected_given => error # ErrLengths

\* C11, for an expected set that is absent or not empty
LengthErrorOnlyWithoutTruthyExpected ==
    pc # "start" =>
        /\ (~expected_given /\ LengthsDiffer(arg_votes))
              => (pc = "error" /\ error = ErrLengths)
        /\ (~expected_given /\ UniverseResolved)
              => all_candidates = Identifiers(arg_votes)
        /\ (expected_given /\ expected_candidates # {}) => error # ErrLengths

\* C12 as stated: a call whose resolved universe is empty fails with
\* 'Need at least 2 candidates.'
EmptyUniverseIsInsufficientCandidates ==
    (UniverseResolved /\ all_candidates = {})
        => (pc = "error" /\ error = ErrCandidates)

\* C12: a resolved universe is empty only when every ballot is empty, and the
\* call then fails with 'Votes cannot be empty.'; 'Need at least 2
\* candidates.' is never raised; a universe of one member is no error.
EmptyUniverseIsEmptyBallot ==
    /\ (UniverseResolved /\ all_candidates = {})
          => /\ pc = "error"
             /\ error = ErrEmptyBallot
             /\ \A i \in 1..Len(arg_votes) : arg_votes[i] = <<>>
    /\ error # ErrCandidates
    /\ (UniverseResolved /\ Cardinality(all_candidates) = 1) => error = "none"

\* two empty ballots and no expected set: the universe is empty and the call
\* has failed
EmptyUniverseIsEmptyBallotWitness ==
    /\ pc = "error"
    /\ UniverseResolved
    /\ all_candidates = {}
    /\ Len(arg_votes) = 2
    /\ ~expected_given

\* C13: a call whose resolved universe has exactly one member returns that
\* member with 'condorcet' for every tiebreaker_method, and computes neither
\* the pairwise results nor a tiebreaker.
SingleCandidateShortcut ==
    (UniverseResolved /\ Cardinality(all_candidates) = 1)
        => /\ pc = "done"
           /\ winner \in all_candidates
           /\ method_used = "condorcet"
           /\ error = "none"
           /\ pairwise_results = EmptyDict
           /\ strength = EmptyDict

\* the ballots ['A', 'B'] filtered to the expected set {'B'}, with the random
\* tiebreaker asked for: 'B' is returned by the shortcut
SingleCandidateShortcutWitness ==
    /\ pc = "done"
    /\ UniverseResolved
    /\ all_candidates = {"B"}
    /\ winner = "B"
    /\ tiebreaker_method = "random"
    /\ expected_given
    /\ \E i \in 1..Len(arg_votes) : Len(arg_votes[i]) = 2

-----------------------------------------------------------------------------
\* C14: for every pairwise dictionary of non-negative counts and every
\* universe of at least two candidates, the list schulze_winners is not empty
\* after the closure, whatever the order of candidates_list, so the random
\* choice among all candidates of lines 258-262 is not reached and the
\* candidate returned is one of schulze_winners.
SchulzeWinnersNonEmpty ==
    (pc = "schulze" /\ Cardinality(all_candidates) >= 2)
        => /\ \A cl \in Perms(all_candidates) :
                SchulzeWinners(SchulzeStrength(pairwise_results, cl), cl) # <<>>
           /\ \A cl \in Perms(all_candidates) :
                SchulzeWinners(strength, cl) # <<>>
           /\ \E i \in all_candidates :
                /\ winner = i
                /\ \A j \in all_candidates \ {i} :
                     strength[<<j, i>>] <= strength[<<i, j>>]

\* the cycle A > B > C > A with equal counts: every candidate is in
\* schulze_winners
SchulzeWinnersNonEmptyWitness ==
    /\ pc = "schulze"
    /\ all_candidates = Candidates
    /\ DOMAIN pairwise_results = {<<"A", "B">>, <<"B", "C">>, <<"C", "A">>}
    /\ \A p \in DOMAIN pairwise_results : pairwise_results[p] = 2
    /\ winner = "C"

\* C15: the loop of lines 228-235 applied a second time to the strength
\* matrix schulze_method produced, in any order of candidates_list, leaves
\* every entry unchanged.
SchulzeClosureIdempotent ==
    pc = "schulze" =>
        \A cl \in Perms(all_candidates) :
            \A i, j \in all_candidates :
                Relax(strength, cl, 1, 1, 1)[<<i, j>>] = strength[<<i, j>>]

\* three candidates where the first pass raised an entry: B reaches A only
\* through C
SchulzeClosureIdempotentWitness ==
    /\ pc = "schulze"
    /\ all_candidates = Candidates
    /\ Get(pairwise_results, "B", "A") = 0
    /\ strength[<<"B", "A">>] = 2

\* C16: the strength matrix the loop of lines 228-235 leaves is the same for
\* every order of candidates_list.
SchulzeClosureOrderIndependent ==
    pc = "schulze" =>
        \A cl \in Perms(all_candidates) :
            SchulzeStrength(pairwise_results, cl) = strength

\* three candidates with three different direct strengths on a cycle, and an
\* entry the loop raised
SchulzeClosureOrderIndependentWitness ==
    /\ pc = "schulze"
    /\ all_candidates = Candidates
    /\ Get(pairwise_results, "A", "B") = 2
    /\ Get(pairwise_results, "B", "C") = 1
    /\ Get(pairwise_results, "C", "A") = 2
    /\ Get(pairwise_results, "A", "C") = 0
    /\ strength[<<"A", "C">>] = 1

-----------------------------------------------------------------------------
\* the number of ballots of the list that hold both a and b
BallotsWithBoth(votes, a, b) ==
    Cardinality({i \in 1..Len(votes) : {a, b} \subseteq Range(votes[i])})

\* count(a,b) + count(b,a) never exceeds the number of ballots with both
SymmetryBound(pw, votes) ==
    \A a, b \in Candidates :
        (a # b /\ BallotsWithBoth(votes, a, b) >= 1)
            => Get(pw, a, b) + Get(pw, b, a) <= BallotsWithBoth(votes, a, b)

\* C17: for the cleaned ballots calculate_condorcet_winner counts and for the
\* stored ballots get_ranking_statistics counts, and every two distinct
\* candidates that are together on some ballot, count(A,B) + count(B,A) is at
\* most the number of ballots that hold both.
PairwiseSymmetryBound ==
    /\ Tabulated => SymmetryBound(pairwise_results, votes_list)
    /\ Finished =>
          SymmetryBound(get_ranking_statistics(arg_votes).pairwise_results, arg_votes)

\* two ballots with A and B in opposite orders, one of them ranking C too
\* and C not expected: both counts are 1 and two ballots hold both
PairwiseSymmetryBoundWitness ==
    /\ Tabulated
    /\ Len(votes_list) = 2
    /\ votes_list # arg_votes
    /\ Get(pairwise_results, "A", "B") = 1
    /\ Get(pairwise_results, "B", "A") = 1
    /\ BallotsWithBoth(votes_list, "A", "B") = 2

-----------------------------------------------------------------------------
\* the sum of the scores of a scores dictionary
RECURSIVE SumOfScores(_)
SumOfScores(scores) ==
    IF scores = <<>> THEN 0 ELSE scores[1][2] + SumOfScores(Tail(scores))

\* every ballot of the list ranks the candidates of S, each exactly once
AllRankExactly(votes, S) ==
    \A i \in 1..Len(votes) :
        Range(votes[i]) = S /\ Len(votes[i]) = Cardinality(S)

\* C18: when borda_count_tiebreaker is given ballots that all rank the same
\* n candidates exactly once, the scores it accumulates add up to
\* total_ballots * n * (n + 1) / 2, and every one of the n candidates has a
\* score.
BordaTotalInvariant ==
    \A S \in SUBSET Candidates :
        (pc = "done" /\ method_used = "borda" /\ AllRankExactly(votes_list, S))
            => /\ 2 * SumOfScores(BordaScores(votes_list))
                    = Len(votes_list) * Cardinality(S) * (Cardinality(S) + 1)
               /\ {BordaScores(votes_list)[x][1] :
                       x \in 1..Len(BordaScores(votes_list))} = S

\* two ballots ranking A, B and C with A and B swapped: no Condorcet winner,
\* Borda has run and the scores add up to 2 * 3 * 4 / 2 = 12
BordaTotalInvariantWitness ==
    /\ pc = "done"
    /\ method_used = "borda"
    /\ Len(votes_list) = 2
    /\ AllRankExactly(votes_list, Candidates)
    /\ SumOfScores(BordaScores(votes_list)) = 12

-----------------------------------------------------------------------------
\* the sequence names every member of the set exactly once
IsPermutationOf(rank, expected) ==
    /\ Len(rank) = Cardinality(expected)
    /\ \A c \in expected : \E i \in 1..Len(rank) : rank[i] = c
    /\ \A i \in 1..Len(rank) : rank[i] \in expected
    /\ \A i, j \in 1..Len(rank) : rank[i] = rank[j] => i = j

\* C19: validate_ranking returns True if and only if the ranking is a
\* permutation of exactly the expected set (same length, same identifiers, no
\* duplicate); every other ranking, the empty ranking against a non-empty
\* expected set included, gets False.
ValidateRankingIffPermutation ==
    pc = "validated" =>
        /\ is_valid = IsPermutationOf(ranking, expected_candidates)
        /\ (ranking = <<>> /\ expected_candidates # {}) => is_valid = FALSE

\* a ranking of the right length and without duplicates that names a
\* candidate outside the expected set is refused
ValidateRankingIffPermutationWitness ==
    /\ pc = "validated"
    /\ ranking = <<"A", "C">>
    /\ expected_candidates = {"A", "B"}
    /\ is_valid = FALSE

-----------------------------------------------------------------------------
\* the ballots of the list whose position 0 is c
FirstChoiceBallots(votes, c) ==
    {i \in 1..Len(votes) : votes[i] # <<>> /\ votes[i][1] = c}

\* the sum of the values of a dictionary
RECURSIVE SumOfValues(_)
SumOfValues(dict) ==
    IF DOMAIN dict = {} THEN 0
    ELSE LET k == CHOOSE x \in DOMAIN dict : TRUE IN
         dict[k] + SumOfValues([x \in DOMAIN dict \ {k} |-> dict[x]])

\* C20: get_ranking_statistics returns total_votes = the number of ballots,
\* candidates_count = the number of distinct identifiers on them,
\* first_choice_votes holding for each candidate that is first on some ballot
\* the number of ballots whose position 0 it is (so the tallies add up to the
\* number of non-empty ballots), and pairwise_results holding for every
\* ordered pair the number of ballots ranking the first above the second,
\* which is what calculate_pairwise_results gives on the same ballots.
RankingStatistics ==
    pc = "stats_done" =>
        /\ stats.total_votes = Len(arg_votes)
        /\ stats.candidates_count = Cardinality(Identifiers(arg_votes))
        /\ DOMAIN stats.first_choice_votes =
              {c \in Candidates : FirstChoiceBallots(arg_votes, c) # {}}
        /\ \A c \in DOMAIN stats.first_choice_votes :
              stats.first_choice_votes[c]
                  = Cardinality(FirstChoiceBallots(arg_votes, c))
        /\ SumOfValues(stats.first_choice_votes)
              = Cardinality({i \in 1..Len(arg_votes) : arg_votes[i] # <<>>})
        /\ \A a, b \in Candidates :
              Get(stats.pairwise_results, a, b) = PairCount(arg_votes, a, b)
        /\ stats.pairwise_results
              = calculate_pairwise_results(arg_votes, Identifiers(arg_votes))

\* two ballots with the same first choice, one of them ranking a second
\* candidate: the tally of A is 2
RankingStatisticsWitness ==
    /\ pc = "stats_done"
    /\ arg_votes = <<<<"A">>, <<"A", "B">>>>
    /\ stats.first_choice_votes["A"] = 2
    /\ stats.candidates_count = 2

-----------------------------------------------------------------------------
\* the ballots [[A,B,C],[B,C,A],[C,A,B]]
CyclicVotes == << <<"A", "B", "C">>, <<"B", "C", "A">>, <<"C", "A", "B">> >>

\* the pairs of the cycle A > B > C > A
CyclePairs == {<<"A", "B">>, <<"B", "C">>, <<"C", "A">>}

\* C21: for the ballots [[A,B,C],[B,C,A],[C,A,B]] with no expected set and
\* tiebreaker 'schulze', every pairwise contest is 2-1 along the cycle, no
\* candidate is a Condorcet winner, the Schulze closure leaves the same
\* strength between any two distinct candidates so that all three are in
\* schulze_winners, and the call returns (w, 'schulze') with w one of A, B, C.
CyclicInputSchulze ==
    (/\ arg_votes = CyclicVotes
     /\ tiebreaker_method = "schulze"
     /\ ~expected_given
     /\ Finished)
        => /\ pc = "done"
           /\ error = "none"
           /\ method_used = "schulze"
           /\ winner \in {"A", "B", "C"}
           /\ \A p \in CyclePairs :
                /\ Get(pairwise_results, p[1], p[2]) = 2
                /\ Get(pairwise_results, p[2], p[1]) = 1
           /\ \A c \in all_candidates : ~IsWinner(pairwise_results, c, all_candidates)
           /\ \A i, j, k, l \in all_candidates :
                (i # j /\ k # l) => strength[<<i, j>>] = strength[<<k, l>>]
           /\ \A cl \in Perms(all_candidates) :
                Range(SchulzeWinners(strength, cl)) = {"A", "B", "C"}

\* the call on the cyclic ballots has returned B
CyclicInputSchulzeWitness ==
    /\ arg_votes = CyclicVotes
    /\ tiebreaker_method = "schulze"
    /\ ~expected_given
    /\ pc = "done"
    /\ method_used = "schulze"
    /\ winner = "B"

-----------------------------------------------------------------------------
\* the ballots borda_count_tiebreaker is given have one length n, the length
\* of the first, and every score n - p it awards lies in 1..n
BordaBallotsWellFormed(votes) ==
    LET n == Len(votes[1]) IN
    /\ \A i \in 1..Len(votes) : Len(votes[i]) = n
    /\ \A i \in 1..Len(votes) : \A p \in 1..Len(votes[i]) :
          Points(n, p - 1) \in 1..n

\* C25: whenever calculate_condorcet_winner dispatches to
\* borda_count_tiebreaker, with or without an expected set, the cleaned
\* ballots it passes all have the length n of the first ballot, so that every
\* score n - p awarded lies in 1..n.
BordaBallotsEqualLength ==
    (pc = "done" /\ method_used = "borda") => BordaBallotsWellFormed(votes_list)

\* C25, for calls in which no expected set filtered the ballots
BordaBallotsEqualLengthUnfiltered ==
    (pc = "done" /\ method_used = "borda"
        /\ ~Truthy(expected_given, expected_candidates))
            => BordaBallotsWellFormed(votes_list)

-----------------------------------------------------------------------------
\* where c is met first when the ballots are scanned in list order and each
\* ballot from position 0 upward: ballots count before positions
FirstSeen(votes, c) ==
    MinOf({(Cardinality(Candidates) + 1) * t[1] + t[2] : t \in Places(votes, c)})

\* the candidates on the ballots whose Borda total is the largest
BordaLeaders(votes) ==
    {c \in UnionOfVotes(votes) :
        \A o \in UnionOfVotes(votes) : BordaTotal(votes, c) >= BordaTotal(votes, o)}

\* C26: when several candidates share the largest Borda total,
\* borda_count_tiebreaker returns the one of them that is met first when the
\* ballots are scanned in list order and each ballot from position 0 upward;
\* the result is fixed by the ordered ballot list.
BordaTieFirstEncountered ==
    (pc = "done" /\ method_used = "borda") =>
        /\ winner \in BordaLeaders(votes_list)
        /\ \A c \in BordaLeaders(votes_list) :
              FirstSeen(votes_list, winner) <= FirstSeen(votes_list, c)
        /\ winner = borda_count_tiebreaker(votes_list)

\* [A,B] and [B,A]: both candidates total 3, A is met first and returned;
\* the same two ballots in the other order give B
BordaTieFirstEncounteredWitness ==
    /\ pc = "done"
    /\ method_used = "borda"
    /\ votes_list = << <<"A", "B">>, <<"B", "A">> >>
    /\ Cardinality(BordaLeaders(votes_list)) = 2
    /\ winner = "A"
    /\ borda_count_tiebreaker(<<votes_list[2], votes_list[1]>>) = "B"

-----------------------------------------------------------------------------
\* C28: every winner calculate_condorcet_winner returns, by any method and
\* with or without an expected set, is ranked on at least one cleaned ballot;
\* a member of the expected set that is on no ballot is never returned.
WinnerIsRanked ==
    pc = "done" => winner \in Identifiers(votes_list)

\* C28, for a universe that holds no candidate missing from every cleaned
\* ballot (no expected set, or one whose members are all ranked somewhere),
\* and for the winners found by find_condorcet_winner, the one-candidate
\* shortcut and borda_count_tiebreaker under any expected set
WinnerIsRankedWhenUniverseIsRanked ==
    pc = "done" =>
        /\ all_candidates \subseteq Identifiers(votes_list)
              => winner \in Identifiers(votes_list)
        /\ method_used \in {"condorcet", "borda"}
              => winner \in Identifiers(votes_list)

-----------------------------------------------------------------------------
\* C29: for every raw ballot list and expected set and every two members A, B
\* of the expected set, count(A,B) on the filtered ballots, which decides the
\* winner, equals count(A,B) on the raw ballots, which results_poll displays
\* through get_ranking_statistics.
FilteringPreservesCounts ==
    /\ (Tabulated /\ expected_given) =>
          \A a, b \in expected_candidates :
              Get(pairwise_results, a, b)
                  = Get(get_ranking_statistics(arg_votes).pairwise_results, a, b)
    /\ (Tabulated /\ expected_given) =>
          \A a, b \in expected_candidates :
              Get(pairwise_results, a, b) = PairCount(arg_votes, a, b)

\* [A,C,B] and [B,A] filtered to {A,B}: C is dropped from between A and B
\* and the two counts stay 1 and 1
FilteringPreservesCountsWitness ==
    /\ Tabulated
    /\ expected_given
    /\ expected_candidates = {"A", "B"}
    /\ arg_votes = << <<"A", "C", "B">>, <<"B", "A">> >>
    /\ votes_list = << <<"A", "B">>, <<"B", "A">> >>
    /\ Get(pairwise_results, "A", "B") = 1
    /\ Get(pairwise_results, "B", "A") = 1

-----------------------------------------------------------------------------
\* the candidates schulze_method may return on the matrix, for every order
\* of candidates_list, are exactly those of S
SchulzeWinnersAre(pw, cands, S) ==
    \A cl \in Perms(cands) :
        Range(SchulzeWinners(SchulzeStrength(pw, cl), cl)) = S

\* C30: for every pairwise matrix computed from ballots the call accepted,
\* ballots that omit candidates of the universe included, if
\* find_condorcet_winner returns C then the winners schulze_method finds on
\* the same matrix are exactly {C}: the early return with 'condorcet' picks
\* the candidate Schulze would pick.
SchulzeAgreesWithCondorcet ==
    (pc = "done" /\ method_used = "condorcet" /\ Cardinality(all_candidates) >= 2)
        => SchulzeWinnersAre(pairwise_results, all_candidates, {winner})

\* C30, for cleaned ballots that each rank every candidate of the universe
SchulzeAgreesWithCondorcetOnFullBallots ==
    (/\ pc = "done"
     /\ method_used = "condorcet"
     /\ Cardinality(all_candidates) >= 2
     /\ AllRankExactly(votes_list, all_candidates))
        => SchulzeWinnersAre(pairwise_results, all_candidates, {winner})

-----------------------------------------------------------------------------
\* the Vote rows that were recorded on the authority of token t
VotesOfToken(t) == {i \in 1..Len(vote_records) : vote_records[i].token = t}

\* C22: in a poll with requires_auth each PollToken accounts for at most one
\* recorded Vote under every interleaving of authentication and vote
\* submission requests, two sessions authenticated with the same unused token
\* and submitting together included; a token with is_used = True is never
\* accepted again: no request holds it past the fetch of its row, and every
\* Vote of such a poll has a used token of its own.
OneTimePasswords ==
    poll.requires_auth =>
        /\ \A t \in Tokens : Cardinality(VotesOfToken(t)) <= 1
        /\ \A t \in Tokens : VotesOfToken(t) # {} => t \in token_used
        /\ \A i \in 1..Len(vote_records) : vote_records[i].token \in Tokens
        /\ \A s \in Sessions :
              sessions[s].pc = "locked" => sessions[s].token \notin token_used
        /\ \A s1, s2 \in Sessions :
              (/\ s1 # s2
               /\ sessions[s1].pc = "locked"
               /\ sessions[s2].pc = "locked")
                  => sessions[s1].token # sessions[s2].token

\* two sessions authenticated with token t1 while it was unused; the vote of
\* s1 is recorded and s2, past the checks with the same token in its session,
\* is about to ask for the row
OneTimePasswordsWitness ==
    /\ poll.requires_auth
    /\ vote_records = <<[session |-> "s1", token |-> "t1"]>>
    /\ "t1" \in token_used
    /\ sessions["s2"] = [pc |-> "checked", token |-> "t1"]

-----------------------------------------------------------------------------
\* C23: for a poll whose max_votes is m, the number of Vote rows of the poll
\* never exceeds m, under every interleaving of concurrent vote_poll
\* submissions.
VoteLimit ==
    poll.max_votes # 0 => Len(vote_records) <= poll.max_votes

\* C23, weakened to what holds: the limit is exceeded by fewer votes than
\* there are sessions submitting at once, and a submission whose checks start
\* at the limit records nothing
VoteLimitOvershoot ==
    poll.max_votes # 0 =>
        Len(vote_records) <= poll.max_votes + Cardinality(Sessions) - 1

-----------------------------------------------------------------------------
\* C27: after the creator's release_results, no vote_poll submission records
\* a new Vote while results_released is true, whether the poll is active or
\* closed, until hide_results is applied.
NoVoteWhileResultsReleased ==
    [][Len(vote_records') > Len(vote_records) => ~poll.results_released]_vars

\* C27, for what the redirects of vote_poll do stop: no submission gets past
\* the top of vote_poll while the poll is closed, released or not
NoSubmissionStartsWhileClosed ==
    [][\A s \in Sessions :
          (sessions[s].pc = "idle" /\ sessions'[s].pc = "checked")
              => poll.is_active]_vars

-----------------------------------------------------------------------------
\* C24: while the poll is active and results_released is false, no request
\* without the poll's creator_code gets the poll's computed winner, through
\* results_poll, poll_api_results or creator_dashboard.
ResultsHiddenWhileActive ==
    (response.winner /\ response.is_active /\ ~response.results_released)
        => response.is_creator

\* C24, for the two endpoints that test the creator_code
ResultsHiddenWhileActiveByPages ==
    (/\ response.endpoint \in {"results_poll", "creator_dashboard"}
     /\ response.winner
     /\ response.is_active
     /\ ~response.results_released)
        => response.is_creator

=============================================================================
